---- MODULE Spec2Model ----
(***************************************************************************)
(* The durable record store of src/server.js: four in-memory collections   *)
(* (orders, products, banners, orderIdCounter), their four backing files,  *)
(* the start-up load (initializeStorage), the request handlers that mutate *)
(* the collections and dispatch file writes, the completion of those       *)
(* writes in any order, the SIGINT/SIGTERM flush, and process death        *)
(* followed by a new process on the same storage location.                 *)
(*                                                                         *)
(* One step of the model is one uninterrupted run of JavaScript on the     *)
(* event loop: from the start of a callback to its next `await` on a file  *)
(* operation (or its end).  The completion of a file write is a step of    *)
(* its own; the code that resumes after the last awaited write of a        *)
(* handler (promise continuations, which run before any other callback)    *)
(* is part of that step.                                                   *)
(***************************************************************************)
EXTENDS Integers, Sequences, FiniteSets

\* ---------------------------------------------------------------- bounds
MaxIds      == 2   \* ids one process run may allocate above the default
MaxOrders   == 2   \* length of the in-memory Orders collection
MaxHandlers == 2   \* request handlers suspended at a file write at once
MaxPending  == 4   \* file writes in flight at once, beside those of flushes
MaxFlush    == 2   \* SIGINT/SIGTERM handlers awaiting their writes at once
MaxFlushWrites == 5   \* file writes of signal handlers in flight at once

\* ------------------------------------------------------ program constants
DefaultCounter == 1001      \* let orderIdCounter = 1001

Absent == "<absent>"        \* a field the request body does not carry

\* ------------------------------------------------------------- files
\* A backing file is missing, holds text that JSON.parse rejects (for
\* instance the front part of a document, left by a write that was cut
\* short), or holds the document some JSON.stringify produced.
NoCounterDoc == [orderIdCounter |-> 0]

MissingSeqFile == [kind |-> "missing", doc |-> <<>>]
CorruptSeqFile == [kind |-> "corrupt", doc |-> <<>>]
MissingCounterFile == [kind |-> "missing", doc |-> NoCounterDoc]
CorruptCounterFile == [kind |-> "corrupt", doc |-> NoCounterDoc]

\* JSON.stringify(value, null, 2): the text of the document.
Stringify(value) == [kind |-> "json", doc |-> value]

\* fs.readFile(file, 'utf8') then JSON.parse: throws when the file is
\* missing or its text is no JSON document, otherwise yields the value.
ReadAndParse(file) ==
    IF file.kind = "json" THEN [threw |-> FALSE, value |-> file.doc]
                          ELSE [threw |-> TRUE,  value |-> file.doc]

\* counterObj.orderIdCounter || 1001
CounterFromObj(counterObj) ==
    IF counterObj.orderIdCounter = 0 THEN DefaultCounter
                                     ELSE counterObj.orderIdCounter

\* getDefaultProducts() and getDefaultBanners() are called by
\* initializeStorage but defined nowhere in the program: evaluating the
\* call raises a ReferenceError.
getDefaultProducts == [threw |-> TRUE, value |-> <<>>]
getDefaultBanners  == [threw |-> TRUE, value |-> <<>>]

VARIABLES
    orders,          \* let orders            (in-memory cache)
    products,        \* let products
    banners,         \* let banners
    orderIdCounter,  \* let orderIdCounter
    fOrders,         \* data/orders.json
    fProducts,       \* data/products.json
    fBanners,        \* data/banners.json
    fCounter,        \* data/counter.json
    pc,              \* position of initializeStorage, or "listening"
    pending,         \* fs.writeFile calls dispatched and not yet completed
    hs,              \* per request handler: what it awaits
    ev,              \* what the latest step made observable (a response, ...)
    runMax,          \* history: largest id this process allocated (0: none)
    ackedMax,        \* history: largest id a 201 response carried (0: none)
    bootEmpty,       \* history: this process started with no backing file
    rt,              \* history: the POST /api/data call being followed
    calm,            \* history: no flush in flight has seen a mutation
    gone             \* history: id whose deletion the last process had
                     \*          just acknowledged when it died (0: none)

mem   == <<orders, products, banners, orderIdCounter>>
disk  == <<fOrders, fProducts, fBanners, fCounter>>
hist  == <<runMax, ackedMax, bootEmpty, rt, calm, gone>>
vars  == <<orders, products, banners, orderIdCounter, fOrders, fProducts,
           fBanners, fCounter, pc, pending, hs, ev, runMax, ackedMax,
           bootEmpty, rt, calm, gone>>

\* ------------------------------------------------------------ owners
InitOwner == 0                          \* initializeStorage
Handlers  == 1 .. MaxHandlers           \* request handlers
Flushes   == { -k : k \in 1 .. MaxFlush }   \* signal handlers

\* ------------------------------------------------------------ records
NoOrder == 0

\* The order record the handler builds.  id, status and notes are the
\* fields the store reads again; items stands for the fields that are
\* copied from the request and never touched afterwards (orderId, customer,
\* address, items, totalAmount, paymentMethod, orderDate).
NewOrder(id, items, notes) ==
    [id |-> id, items |-> items, status |-> "Pending", notes |-> notes]

Idle == [op |-> "idle", id |-> NoOrder, failed |-> FALSE]

NoResp == [code |-> 0, success |-> FALSE, order |-> NoOrder, msg |-> ""]
NoEv   == [kind |-> "none", op |-> "", id |-> NoOrder, failed |-> FALSE,
           resp |-> NoResp]
Responded(op, id, failed, resp) ==
    [kind |-> "resp", op |-> op, id |-> id, failed |-> failed, resp |-> resp]
Marked(kind) ==
    [kind |-> kind, op |-> "", id |-> NoOrder, failed |-> FALSE, resp |-> NoResp]
\* A handler went past its checks with request body `arg` and is suspended
\* at its writes.
Called(op, id, arg) ==
    [kind |-> "call", op |-> op, id |-> id, failed |-> FALSE, resp |-> NoResp,
     arg |-> arg]

\* History of one POST /api/data call, for the round trip through a
\* restart: "called" (dispatched with no other write in flight), "acked"
\* (answered with success), "restarted" (the process ended after that and
\* a new one was started, with no write cut short and no signal while the
\* new process initializes); "none" once the call is no longer followed.
NoTrip == [stage |-> "none", p |-> <<>>, b |-> <<>>]
Trip(stage, p, b) == [stage |-> stage, p |-> p, b |-> b]
TripEnds(torn) ==
    IF ~torn /\ rt.stage \in {"acked", "restarted"}
    THEN Trip("restarted", rt.p, rt.b)
    ELSE NoTrip

\* ------------------------------------------------------- save functions
\* Each save function serializes the collection as it is when the function
\* is called and hands the text to fs.writeFile; the write completes later.
saveOrders(owner, o) ==
    [file |-> "orders", owner |-> owner, ords |-> o, cat |-> <<>>, n |-> 0]
\* A products save that writes to the banners path.
saveProductsToBanners(owner, p) ==
    [file |-> "banners", owner |-> owner, ords |-> <<>>, cat |-> p, n |-> 0]

saveProducts(owner, p) ==
    [file |-> "products", owner |-> owner, ords |-> <<>>, cat |-> p, n |-> 0]
saveBanners(owner, b) ==
    [file |-> "banners", owner |-> owner, ords |-> <<>>, cat |-> b, n |-> 0]
\* A counter save that writes the value the counter starts with.
saveCounterDefault(owner, c) ==
    [file |-> "counter", owner |-> owner, ords |-> <<>>, cat |-> <<>>,
     n |-> DefaultCounter]

saveCounter(owner, c) ==
    [file |-> "counter", owner |-> owner, ords |-> <<>>, cat |-> <<>>, n |-> c]

\* The file after fs.writeFile has completed: replaced by the text that was
\* dispatched, or left as it was when the write failed.
Written(w, file, old, ok, text) ==
    IF w.file = file /\ ok THEN text ELSE old

WriteLands(w, ok) ==
    /\ fOrders'   = Written(w, "orders", fOrders, ok, Stringify(w.ords))
    /\ fProducts' = Written(w, "products", fProducts, ok, Stringify(w.cat))
    /\ fBanners'  = Written(w, "banners", fBanners, ok, Stringify(w.cat))
    /\ fCounter'  = Written(w, "counter", fCounter, ok,
                            Stringify([orderIdCounter |-> w.n]))

OwnedBy(owner, ws) == { w \in ws : w.owner = owner }

\* The writes of signal handlers among ws.
FlushWrites(ws) == { w \in ws : w.owner \in Flushes }

\* History kept by a handler that changes a collection: a flush that is in
\* flight has now seen a mutation.
Disturbed == calm' = (calm /\ FlushWrites(pending) = {})

\* ------------------------------------------------------------- reads
listOrders  == orders
listCatalog == <<products, banners>>

\* orders.findIndex(o => o.id === id) + 1, 0 when there is none
RECURSIVE FindFrom(_, _, _)
FindFrom(o, id, i) ==
    IF i > Len(o) THEN 0
    ELSE IF o[i].id = id THEN i ELSE FindFrom(o, id, i + 1)
FindIndex(o, id) == FindFrom(o, id, 1)

getOrder(id) ==
    IF FindIndex(orders, id) = 0 THEN [code |-> 404, found |-> FALSE]
                                 ELSE [code |-> 200, found |-> TRUE]

\* orders.splice(index, 1)
Splice(o, index) ==
    [i \in 1 .. Len(o) - 1 |-> IF i < index THEN o[i] ELSE o[i + 1]]

Max(a, b) == IF a > b THEN a ELSE b

\* ------------------------------------------------------ process start
\* The module-level state of a new process: the initial values of the four
\* `let` bindings, nothing dispatched, initializeStorage about to run.
ProcessStarts ==
    /\ orders' = <<>>
    /\ products' = <<>>
    /\ banners' = <<>>
    /\ orderIdCounter' = DefaultCounter
    /\ pc' = "mkdir"
    /\ pending' = {}
    /\ hs' = [h \in Handlers |-> Idle]
    /\ runMax' = 0
    /\ ev' = NoEv
    /\ bootEmpty' = /\ fOrders'.kind = "missing"
                    /\ fProducts'.kind = "missing"
                    /\ fBanners'.kind = "missing"
                    /\ fCounter'.kind = "missing"
    /\ calm' = TRUE
    /\ gone' = IF ev.kind = "resp" /\ ev.op = "delete" /\ ev.resp.success
               THEN ev.id ELSE NoOrder
    /\ UNCHANGED ackedMax

\* The first process starts on a storage location that is empty, or on one
\* an earlier run left after it created order 1001 and replaced the
\* catalogue.
Init ==
    /\ orders = <<>>
    /\ products = <<>>
    /\ banners = <<>>
    /\ orderIdCounter = DefaultCounter
    /\ \/ /\ fOrders = MissingSeqFile
          /\ fProducts = MissingSeqFile
          /\ fBanners = MissingSeqFile
          /\ fCounter = MissingCounterFile
          /\ ackedMax = 0
          /\ bootEmpty = TRUE
       \/ /\ fOrders = Stringify(<<NewOrder(DefaultCounter, "x2", "")>>)
          /\ fProducts = Stringify(<<"p1">>)
          /\ fBanners = Stringify(<<"b1">>)
          /\ fCounter = Stringify([orderIdCounter |-> DefaultCounter + 1])
          /\ ackedMax = DefaultCounter
          /\ bootEmpty = FALSE
    /\ pc = "mkdir"
    /\ pending = {}
    /\ hs = [h \in Handlers |-> Idle]
    /\ ev = NoEv
    /\ runMax = 0
    /\ rt = NoTrip
    /\ calm = TRUE
    /\ gone = NoOrder

\* ------------------------------------------------- initializeStorage
\* How initializeStorage leaves a catch block of a collection: where it
\* goes on after the block, or "listening" when the block threw, which the
\* outer catch swallows, so that the promise resolves and app.listen runs.
InitFinished == "listening"

InitEv(next) == IF next = InitFinished THEN Marked("initDone") ELSE NoEv

\* await fs.mkdir(DATA_DIR, { recursive: true }).  The storage location is
\* taken to be one where the directory exists or can be created.
InitMkdir ==
    /\ pc = "mkdir"
    /\ pc' = "orders"
    /\ ev' = NoEv
    /\ UNCHANGED <<mem, disk, pending, hs, hist>>

\* Load or create orders file
InitOrders ==
    /\ pc = "orders"
    /\ LET r == ReadAndParse(fOrders) IN
          IF ~r.threw
          THEN /\ orders' = r.value
               /\ pc' = "products"
               /\ UNCHANGED pending
          ELSE /\ orders' = <<>>
               /\ pending' = pending \cup {saveOrders(InitOwner, orders')}
               /\ pc' = "ordersSave"
    /\ ev' = NoEv
    /\ UNCHANGED <<products, banners, orderIdCounter, disk, hs, hist>>

\* Load or create products file
InitProducts ==
    /\ pc = "products"
    /\ LET r == ReadAndParse(fProducts)
           d == getDefaultProducts IN
          IF ~r.threw
          THEN /\ products' = r.value
               /\ pc' = "banners"
               /\ UNCHANGED pending
          ELSE IF d.threw
          THEN /\ pc' = InitFinished
               /\ UNCHANGED <<products, pending>>
          ELSE /\ products' = d.value
               /\ pending' = pending \cup {saveProducts(InitOwner, products')}
               /\ pc' = "productsSave"
    /\ ev' = InitEv(pc')
    /\ UNCHANGED <<orders, banners, orderIdCounter, disk, hs, hist>>

\* Load or create banners file
InitBanners ==
    /\ pc = "banners"
    /\ LET r == ReadAndParse(fBanners)
           d == getDefaultBanners IN
          IF ~r.threw
          THEN /\ banners' = r.value
               /\ pc' = "counter"
               /\ UNCHANGED pending
          ELSE IF d.threw
          THEN /\ pc' = InitFinished
               /\ UNCHANGED <<banners, pending>>
          ELSE /\ banners' = d.value
               /\ pending' = pending \cup {saveBanners(InitOwner, banners')}
               /\ pc' = "bannersSave"
    /\ ev' = InitEv(pc')
    /\ UNCHANGED <<orders, products, orderIdCounter, disk, hs, hist>>

\* Load or create counter file
InitCounter ==
    /\ pc = "counter"
    /\ LET r == ReadAndParse(fCounter) IN
          IF ~r.threw
          THEN /\ orderIdCounter' = CounterFromObj(r.value)
               /\ pc' = InitFinished
               /\ UNCHANGED pending
          ELSE /\ pending' = pending \cup {saveCounter(InitOwner, orderIdCounter)}
               /\ pc' = "counterSave"
               /\ UNCHANGED orderIdCounter
    /\ ev' = InitEv(pc')
    /\ UNCHANGED <<orders, products, banners, disk, hs, hist>>

\* Where initializeStorage resumes after the awaited save of a default.
AfterSave(at) ==
    CASE at = "ordersSave"   -> "products"
      [] at = "productsSave" -> "banners"
      [] at = "bannersSave"  -> "counter"
      [] at = "counterSave"  -> InitFinished
      [] OTHER               -> at

\* The write initializeStorage awaits completes; the save function returns
\* true or false, which initializeStorage does not look at.
InitWriteDone ==
    \E w \in OwnedBy(InitOwner, pending), ok \in BOOLEAN :
       /\ WriteLands(w, ok)
       /\ pending' = pending \ {w}
       /\ pc' = AfterSave(pc)
       /\ ev' = InitEv(pc')
       /\ UNCHANGED <<mem, hs, hist>>

\* ------------------------------------------------------- request inputs
\* Bodies of POST /api/orders: one that carries the required fields and one
\* that lacks address and items.
Payloads ==
    { [customer |-> "A", address |-> "addr", items |-> "x2", notes |-> Absent],
      [customer |-> "A", address |-> Absent, items |-> Absent, notes |-> Absent] }

\* A check that looks at the customer only.
MissingCustomer(orderData) == orderData.customer = Absent

\* !orderData.customer || !orderData.address || !orderData.items
MissingRequired(orderData) ==
    \/ orderData.customer = Absent
    \/ orderData.address = Absent
    \/ orderData.items = Absent

\* value || fallback, for a string field
OrElse(value, fallback) ==
    IF value = Absent \/ value = "" THEN fallback ELSE value

\* parseInt(req.params.id) of the requests the model sends
RequestIds == DefaultCounter .. DefaultCounter + MaxIds

\* Bodies of PUT /api/orders/:id: one that sets both fields, one whose
\* status is the empty string and that carries no notes.
UpdateInputs ==
    { [status |-> "Shipped", notes |-> "gift"],
      [status |-> "", notes |-> Absent] }

\* Bodies of POST /api/data: one that carries both lists, one that carries
\* neither.
Given(list) == [present |-> TRUE, value |-> list]
NotGiven    == [present |-> FALSE, value |-> <<>>]
CatalogInputs ==
    { [products |-> Given(<<"p1">>), banners |-> Given(<<"b1">>)],
      [products |-> NotGiven, banners |-> NotGiven] }

\* The body of DELETE /api/orders/:id, which the handler does not read.
NoBody == [status |-> Absent, notes |-> Absent]

\* req.body.products || []
ListOrEmpty(field) == IF field.present THEN field.value ELSE <<>>

\* The handler a new request runs in: requests are told apart only by what
\* they await, so the lowest free one stands for any.
FreeHandler == CHOOSE h \in Handlers :
                  /\ hs[h] = Idle
                  /\ \A g \in Handlers : hs[g] = Idle => h <= g
Busy == { h \in Handlers : hs[h] # Idle }

\* A server that takes requests whether or not app.listen has run.
AcceptingEarly(limit, writes) ==
    /\ Cardinality(Busy) < limit
    /\ limit <= MaxHandlers
    /\ Cardinality(pending) + writes <= MaxPending

\* A request arrives while fewer than `limit` handlers are suspended and
\* dispatches `writes` writes: app.listen has run, and the model's bounds
\* leave room.
Accepting(limit, writes) ==
    /\ pc = "listening"
    /\ Cardinality(Busy) < limit
    /\ limit <= MaxHandlers
    /\ Cardinality(pending) + writes <= MaxPending

\* A counter that is read and not advanced.
PostIncrementStuck(c) == c

\* orderIdCounter++ : the value the counter holds afterwards
PostIncrement(c) == c + 1

\* ------------------------------------------------------------ responses
\* saved.every(s => s === true) decides between 201 and the thrown Error,
\* which the handler's catch turns into a 400 that carries the message only.
\* A create handler that drops the flags the saves return.
CreateResponseUnchecked(saved, id) ==
    [code |-> 201, success |-> TRUE, order |-> id, msg |-> "created"]

CreateResponse(saved, id) ==
    IF saved
    THEN [code |-> 201, success |-> TRUE, order |-> id, msg |-> "created"]
    ELSE [code |-> 400, success |-> FALSE, order |-> NoOrder,
          msg |-> "Failed to save order"]

\* `await saveOrders()` : the returned flag is dropped
UpdateResponse(saved, id) ==
    [code |-> 200, success |-> TRUE, order |-> id, msg |-> "updated"]

DeleteResponse(saved, id) ==
    [code |-> 200, success |-> TRUE, order |-> NoOrder,
     msg |-> "Order deleted successfully"]

\* A catalogue handler that drops the flags the saves return.
DataResponseUnchecked(saved, id) ==
    [code |-> 200, success |-> TRUE, order |-> NoOrder,
     msg |-> "Data saved successfully"]

DataResponse(saved, id) ==
    IF saved
    THEN [code |-> 200, success |-> TRUE, order |-> NoOrder,
          msg |-> "Data saved successfully"]
    ELSE [code |-> 500, success |-> FALSE, order |-> NoOrder,
          msg |-> "Failed to save data"]

NotFound ==
    [code |-> 404, success |-> FALSE, order |-> NoOrder, msg |-> "Order not found"]

MissingFields ==
    [code |-> 400, success |-> FALSE, order |-> NoOrder,
     msg |-> "Missing required fields"]

ResponseOf(op, saved, id) ==
    CASE op = "create" -> CreateResponse(saved, id)
      [] op = "update" -> UpdateResponse(saved, id)
      [] op = "delete" -> DeleteResponse(saved, id)
      [] OTHER         -> DataResponse(saved, id)

\* res.json(orders), res.json({ products, banners }), res.json(order)
ReadResponse(id) ==
    [code |-> 200, success |-> TRUE, order |-> id, msg |-> "read"]

\* ------------------------------------------------------ request handlers
\* GET /api/orders
ListOrders(limit) ==
    /\ Accepting(limit, 0)
    /\ ev' = Responded("list", NoOrder, FALSE, ReadResponse(NoOrder))
    /\ UNCHANGED <<mem, disk, pc, pending, hs, hist>>

\* GET /api/data
ListCatalog(limit) ==
    /\ Accepting(limit, 0)
    /\ ev' = Responded("catalog", NoOrder, FALSE, ReadResponse(NoOrder))
    /\ UNCHANGED <<mem, disk, pc, pending, hs, hist>>

\* GET /api/orders/:id
ReadOrder(limit) ==
    \E id \in RequestIds :
       /\ Accepting(limit, 0)
       /\ ev' = Responded("get", id, FALSE,
                          IF getOrder(id).found THEN ReadResponse(id)
                                                ELSE NotFound)
       /\ UNCHANGED <<mem, disk, pc, pending, hs, hist>>

\* POST /api/orders up to `await Promise.all([saveOrders(), saveCounter()])`
CreateOrder(limit) ==
    \E orderData \in Payloads :
       /\ Accepting(limit, 2)
       /\ IF MissingRequired(orderData)
          THEN /\ ev' = Responded("create", NoOrder, FALSE, MissingFields)
               /\ UNCHANGED <<mem, pending, hs, hist>>
          ELSE /\ orderIdCounter < DefaultCounter + MaxIds
               /\ Len(orders) < MaxOrders
               /\ LET h  == FreeHandler
                      id == orderIdCounter IN
                     /\ orderIdCounter' = PostIncrement(orderIdCounter)
                     /\ orders' = Append(orders,
                                         NewOrder(id, orderData.items,
                                                  OrElse(orderData.notes, "")))
                     /\ pending' = pending \cup
                                     { saveOrders(h, orders'),
                                       saveCounter(h, orderIdCounter') }
                     /\ hs' = [hs EXCEPT ![h] =
                                 [op |-> "create", id |-> id, failed |-> FALSE]]
                     /\ runMax' = Max(runMax, id)
                     /\ ev' = Called("create", id, orderData)
               /\ Disturbed
               /\ UNCHANGED <<products, banners, ackedMax, bootEmpty, rt, gone>>
       /\ UNCHANGED <<disk, pc>>

\* if (req.body.status) order.status = ...; if (req.body.notes !== undefined) ...
ApplyUpdate(order, status, notes) ==
    [order EXCEPT
        !.status = IF status = Absent \/ status = "" THEN @ ELSE status,
        !.notes  = IF notes = Absent THEN @ ELSE notes]

\* PUT /api/orders/:id up to `await saveOrders()`
UpdateOrder(limit) ==
    \E id \in RequestIds, body \in UpdateInputs :
       /\ Accepting(limit, 1)
       /\ LET index == FindIndex(orders, id)
              h     == FreeHandler IN
             IF index = 0
             THEN /\ ev' = Responded("update", id, FALSE, NotFound)
                  /\ UNCHANGED <<orders, pending, hs>>
             ELSE /\ orders' = [orders EXCEPT
                                  ![index] = ApplyUpdate(@, body.status, body.notes)]
                  /\ pending' = pending \cup {saveOrders(h, orders')}
                  /\ hs' = [hs EXCEPT ![h] =
                              [op |-> "update", id |-> id, failed |-> FALSE]]
                  /\ ev' = Called("update", id, body)
       /\ IF FindIndex(orders, id) = 0 THEN UNCHANGED calm ELSE Disturbed
       /\ UNCHANGED <<products, banners, orderIdCounter, disk, pc, runMax,
                      ackedMax, bootEmpty, rt, gone>>

\* DELETE /api/orders/:id up to `await saveOrders()`
DeleteOrder(limit) ==
    \E id \in RequestIds :
       /\ Accepting(limit, 1)
       /\ LET index == FindIndex(orders, id)
              h     == FreeHandler IN
             IF index = 0
             THEN /\ ev' = Responded("delete", id, FALSE, NotFound)
                  /\ UNCHANGED <<orders, pending, hs>>
             ELSE /\ orders' = Splice(orders, index)
                  /\ pending' = pending \cup {saveOrders(h, orders')}
                  /\ hs' = [hs EXCEPT ![h] =
                              [op |-> "delete", id |-> id, failed |-> FALSE]]
                  /\ ev' = Called("delete", id, NoBody)
       /\ IF FindIndex(orders, id) = 0 THEN UNCHANGED calm ELSE Disturbed
       /\ UNCHANGED <<products, banners, orderIdCounter, disk, pc, runMax,
                      ackedMax, bootEmpty, rt, gone>>

\* POST /api/data up to `await Promise.all([saveProducts(), saveBanners()])`
ReplaceCatalog(limit) ==
    \E body \in CatalogInputs :
       /\ Accepting(limit, 2)
       /\ LET h == FreeHandler IN
             /\ products' = ListOrEmpty(body.products)
             /\ banners' = ListOrEmpty(body.banners)
             /\ pending' = pending \cup
                             { saveProducts(h, products'), saveBanners(h, banners') }
             /\ hs' = [hs EXCEPT ![h] =
                         [op |-> "data", id |-> NoOrder, failed |-> FALSE]]
             /\ ev' = Called("data", NoOrder, body)
             /\ rt' = IF pending = {}
                      THEN Trip("called", products', banners')
                      ELSE NoTrip
       /\ Disturbed
       /\ UNCHANGED <<orders, orderIdCounter, disk, pc, runMax, ackedMax,
                      bootEmpty, gone>>

\* The files the store writes, and the two the order handlers write.
DataFiles  == {"orders", "products", "banners", "counter"}
OrderFiles == {"orders", "counter"}

\* fs.writeFile resolves or rejects; a specification names in `faulty` the
\* files whose writes it lets be rejected.
WriteOutcomes(w, faulty) == IF w.file \in faulty THEN BOOLEAN ELSE {TRUE}

\* A write a request handler awaits completes.  When it was the last one
\* the handler awaits, the handler resumes in the same turn and responds.
HandlerWriteDone(faulty) ==
    \E h \in Handlers :
       \E w \in OwnedBy(h, pending) : \E ok \in WriteOutcomes(w, faulty) :
          LET failed == hs[h].failed \/ ~ok IN
             /\ WriteLands(w, ok)
             /\ pending' = pending \ {w}
             /\ IF OwnedBy(h, pending') = {}
                THEN /\ hs' = [hs EXCEPT ![h] = Idle]
                     /\ ev' = Responded(hs[h].op, hs[h].id, failed,
                                        ResponseOf(hs[h].op, ~failed, hs[h].id))
                     /\ rt' = IF hs[h].op = "data" /\ rt.stage = "called"
                              THEN IF ev'.resp.success
                                   THEN Trip("acked", rt.p, rt.b) ELSE NoTrip
                              ELSE rt
                     /\ ackedMax' = IF ev'.resp.code = 201
                                    THEN Max(ackedMax, ev'.resp.order)
                                    ELSE ackedMax
                ELSE /\ hs' = [hs EXCEPT ![h].failed = failed]
                     /\ ev' = NoEv
                     /\ UNCHANGED <<rt, ackedMax>>
             /\ UNCHANGED <<mem, pc, runMax, bootEmpty, calm, gone>>

\* --------------------------------------------------- signals and death
\* The signal handlers that await their writes.
Flushing == { f \in Flushes : OwnedBy(f, pending) # {} }

\* SIGINT / SIGTERM: the handler dispatches the four saves of the
\* collections as they are and awaits them.  A signal arrives while fewer
\* than `limit` signal handlers are suspended and the model's bounds leave
\* room beside the writes of initializeStorage and of request handlers.
Signal(limit) ==
    /\ Cardinality(Flushing) < limit
    /\ limit <= MaxFlush
    /\ Cardinality(pending \ FlushWrites(pending)) + 4 <= MaxPending
    /\ Cardinality(FlushWrites(pending)) + 4 <= MaxFlushWrites
    /\ \E f \in Flushes :
          /\ OwnedBy(f, pending) = {}
          /\ \A g \in Flushes : OwnedBy(g, pending) = {} => f >= g
          /\ pending' = pending \cup
                          { saveOrders(f, orders), saveProducts(f, products),
                            saveBanners(f, banners),
                            saveCounter(f, orderIdCounter) }
    /\ ev' = NoEv
    /\ rt' = IF pc = "listening" THEN rt ELSE NoTrip
    /\ calm' = (calm /\ pc = "listening" /\ Busy = {})
    /\ UNCHANGED <<mem, disk, pc, hs, runMax, ackedMax, bootEmpty, gone>>

\* The file a write was cut short on holds the front part of its text.
Torn(w, file, old, corrupt) == IF w.file = file THEN corrupt ELSE old

\* The process ends while the writes in `ws` are in flight: none of them
\* reaches its file, or one of them is cut short.  `from` is the disk the
\* process leaves apart from that.
EndsWith(ws, from) ==
    \/ /\ fOrders' = from[1]
       /\ fProducts' = from[2]
       /\ fBanners' = from[3]
       /\ fCounter' = from[4]
       /\ rt' = TripEnds(FALSE)
    \/ \E w \in ws :
          /\ fOrders'   = Torn(w, "orders", from[1], CorruptSeqFile)
          /\ fProducts' = Torn(w, "products", from[2], CorruptSeqFile)
          /\ fBanners'  = Torn(w, "banners", from[3], CorruptSeqFile)
          /\ fCounter'  = Torn(w, "counter", from[4], CorruptCounterFile)
          /\ rt' = TripEnds(TRUE)

\* A write of a signal handler completes.  After the last one the handler
\* calls process.exit(0), which does not wait for the writes other callers
\* still have in flight; a new process is started on the same storage
\* location.
FlushWriteDone(faulty) ==
    \E f \in Flushes :
       \E w \in OwnedBy(f, pending) : \E ok \in WriteOutcomes(w, faulty) :
          IF OwnedBy(f, pending \ {w}) = {}
          THEN /\ EndsWith(pending \ {w},
                           << Written(w, "orders", fOrders, ok, Stringify(w.ords)),
                              Written(w, "products", fProducts, ok, Stringify(w.cat)),
                              Written(w, "banners", fBanners, ok, Stringify(w.cat)),
                              Written(w, "counter", fCounter, ok,
                                      Stringify([orderIdCounter |-> w.n])) >>)
               /\ ProcessStarts
          ELSE /\ WriteLands(w, ok)
               /\ pending' = pending \ {w}
               /\ ev' = NoEv
               /\ UNCHANGED <<mem, pc, hs, hist>>

\* The process dies (crash, kill) with nothing torn, or in the middle of
\* one of the writes in flight; a new process is started afterwards.
Crash ==
    /\ EndsWith(pending, disk)
    /\ ProcessStarts

\* ------------------------------------------------------ specifications
Initialize ==
    \/ InitMkdir
    \/ InitOrders
    \/ InitProducts
    \/ InitBanners
    \/ InitCounter
    \/ InitWriteDone

\* The order side of the store serving one request at a time (each request
\* is answered before the next arrives), with write failures, process
\* death and restart on the same storage location.
Next ==
    \/ Initialize
    \/ CreateOrder(1)
    \/ UpdateOrder(1)
    \/ DeleteOrder(1)
    \/ HandlerWriteDone(DataFiles)
    \/ Crash

Spec == Init /\ [][Next]_vars

\* One process run with requests of all four kinds, one at a time.  The
\* writes of orders.json and counter.json may be rejected; those of the
\* catalogue files go through.
NextRun ==
    \/ Initialize
    \/ CreateOrder(1)
    \/ UpdateOrder(1)
    \/ DeleteOrder(1)
    \/ ReplaceCatalog(1)
    \/ HandlerWriteDone(OrderFiles)

SpecRun == Init /\ [][NextRun]_vars

\* The catalogue side with shutdown signals: POST /api/data one at a time,
\* SIGINT/SIGTERM at any moment (also while initializeStorage runs), exit
\* after the flush, process death, restart.
NextShutdown ==
    \/ Initialize
    \/ ReplaceCatalog(1)
    \/ HandlerWriteDone(DataFiles)
    \/ Signal(1)
    \/ FlushWriteDone(DataFiles)
    \/ Crash

SpecShutdown == Init /\ [][NextShutdown]_vars

\* One process run with overlapping requests: a request may arrive while
\* others are suspended at their writes, and the writes in flight complete
\* in any order.
NextConcurrent ==
    \/ Initialize
    \/ CreateOrder(MaxHandlers)
    \/ DeleteOrder(MaxHandlers)
    \/ HandlerWriteDone(DataFiles)

SpecConcurrent == Init /\ [][NextConcurrent]_vars

\* One process run with overlapping POST and DELETE requests on the orders
\* whose writes all go through and complete in any order.
NextOverlap ==
    \/ Initialize
    \/ CreateOrder(MaxHandlers)
    \/ DeleteOrder(MaxHandlers)
    \/ HandlerWriteDone({})

SpecOverlap == Init /\ [][NextOverlap]_vars

\* The catalogue side with shutdown signals that may overlap: a signal may
\* arrive while the handlers of earlier ones still await their writes.  The
\* writes of the signal handlers go through unless the exit of the process
\* cuts them short; those of POST /api/data may be rejected.
NextFlush ==
    \/ Initialize
    \/ ReplaceCatalog(1)
    \/ HandlerWriteDone(DataFiles)
    \/ Signal(MaxFlush)
    \/ FlushWriteDone({})

SpecFlush == Init /\ [][NextFlush]_vars

\* One process run with all the routes of the store, reads included, one
\* request at a time; the writes of the request handlers go through.
NextServe ==
    \/ Initialize
    \/ ListOrders(1)
    \/ ReadOrder(1)
    \/ ListCatalog(1)
    \/ CreateOrder(1)
    \/ UpdateOrder(1)
    \/ DeleteOrder(1)
    \/ ReplaceCatalog(1)
    \/ HandlerWriteDone({})

SpecServe == Init /\ [][NextServe]_vars

\* ------------------------------------------------------------- claims
IsResponse(op)   == ev.kind = "resp" /\ ev.op = op
InitJustFinished == ev.kind = "initDone"

\* The backing file holds exactly this value.
Holds(file, value) == file.kind = "json" /\ file.doc = value
CounterHolds(file, c) == file.kind = "json" /\ file.doc.orderIdCounter = c
Readable(file) == file.kind = "json"

\* C1: within one process run, the id a createOrder allocates is strictly
\* greater than every id the run allocated before it (runMax is the largest
\* of them), whatever calls of createOrder, updateOrder, deleteOrder and
\* replaceCatalog came before; so no id is handed out twice, also not after
\* the order that held it was deleted.
C1_IdsStrictlyIncrease ==
    [][ (pc = "listening" /\ Len(orders') = Len(orders) + 1)
          => orders'[Len(orders')].id > runMax ]_vars

\* C1 witness: createOrder has just reported success for the second id of a
\* run that began at 1001, after the order that held the first id was
\* deleted.
C1_Witness ==
    /\ IsResponse("create") /\ ev.resp.success
    /\ bootEmpty
    /\ ev.resp.order = DefaultCounter + 1
    /\ FindIndex(orders, DefaultCounter) = 0

\* C2: whenever the store serves requests, also after a restart, the
\* in-memory counter is at least 1 + the largest id ever allocated (here:
\* the largest id a successful createOrder ever returned).
C2_CounterAboveAllocated ==
    pc = "listening" => orderIdCounter >= ackedMax + 1

\* C3: no two orders of the in-memory Orders collection have the same id.
C3_UniqueIds ==
    \A i, j \in 1 .. Len(orders) : i # j => orders[i].id # orders[j].id

\* C4: when initialize() has finished, each of the four in-memory
\* collections equals the value stored in its backing file.
C4_InitLeavesMemoryOnDisk ==
    InitJustFinished =>
        /\ Holds(fOrders, orders)
        /\ Holds(fProducts, products)
        /\ Holds(fBanners, banners)
        /\ CounterHolds(fCounter, orderIdCounter)

\* C5: after initialize() on a storage location with no collection file,
\* listOrders() is empty, listCatalog() is the built-in default products
\* and banners, and the counter is 1001.
C5_EmptyStorageDefaults ==
    (InitJustFinished /\ bootEmpty) =>
        /\ listOrders = <<>>
        /\ ~getDefaultProducts.threw /\ ~getDefaultBanners.threw
        /\ listCatalog = <<getDefaultProducts.value, getDefaultBanners.value>>
        /\ orderIdCounter = DefaultCounter

\* C6: initialize() loads each collection whatever happened to the others:
\* when it has finished, every collection whose file is readable holds the
\* content of its file.
C6_EachCollectionLoaded ==
    InitJustFinished =>
        /\ Readable(fOrders) => orders = fOrders.doc
        /\ Readable(fProducts) => products = fProducts.doc
        /\ Readable(fBanners) => banners = fBanners.doc
        /\ Readable(fCounter) =>
              orderIdCounter = CounterFromObj(fCounter.doc)

\* C7: round trip of the catalogue: replaceCatalog(P, B) that was
\* dispatched with no other write in flight and reported success, followed
\* by the end of the process (exit after a shutdown flush, or death with no
\* write cut short) and a fresh initialize() that no signal interrupts,
\* yields listCatalog() = (P, B).
C7_CatalogRoundTrip ==
    (InitJustFinished /\ rt.stage = "restarted")
        => listCatalog = <<rt.p, rt.b>>

\* C7 witness: a fresh initialize() has finished after a successful
\* replaceCatalog of a non-empty catalogue and a restart.
C7_Witness ==
    /\ InitJustFinished
    /\ rt.stage = "restarted"
    /\ rt.p = <<"p1">> /\ rt.b = <<"b1">>

\* C8: whenever createOrder reports success (and the order has not been
\* deleted meanwhile), the Orders file holds the new order and the counter
\* file holds a value greater than its id, under every interleaving of
\* overlapping requests.
C8_SuccessMeansPersisted ==
    (IsResponse("create") /\ ev.resp.success /\ FindIndex(listOrders, ev.id) # 0) =>
        /\ Readable(fOrders) /\ FindIndex(fOrders.doc, ev.id) # 0
        /\ Readable(fCounter) /\ fCounter.doc.orderIdCounter > ev.id

\* C9, as claimed: when a write of createOrder fails, the call reports a
\* failure and still returns the created order, the order is in
\* listOrders() and the counter has advanced by 1.
C9_FailureReturnsOrder ==
    (IsResponse("create") /\ ev.failed) =>
        /\ ~ev.resp.success
        /\ ev.resp.order = ev.id
        /\ FindIndex(listOrders, ev.id) # 0
        /\ orderIdCounter = ev.id + 1

\* C9, amended: when a write of createOrder fails, the call reports a
\* failure (status 400, "Failed to save order") that carries no order, the
\* order is in listOrders() and the counter has advanced by 1.
C9_FailureKeepsMutation ==
    (IsResponse("create") /\ ev.failed) =>
        /\ ~ev.resp.success
        /\ ev.resp.code = 400
        /\ ev.resp.order = NoOrder
        /\ FindIndex(listOrders, ev.id) # 0
        /\ orderIdCounter = ev.id + 1

\* C9 witness: createOrder has answered after one of its writes failed.
C9_Witness ==
    /\ IsResponse("create") /\ ev.failed
    /\ ev.id = DefaultCounter
    /\ Len(orders) = 1

\* C10: when the write of updateOrder fails, the call reports a failure,
\* not success, and the in-memory change stays applied.
C10_UpdateReportsWriteFailure ==
    (IsResponse("update") /\ ev.failed) =>
        /\ ~ev.resp.success
        /\ FindIndex(listOrders, ev.id) # 0

\* C11: replaceCatalog(products, banners) reports success exactly when both
\* of its writes succeeded, and whether it reports success or failure the
\* in-memory products and banners are the values of the call (rt holds
\* them from the moment the call was made).
C11_CatalogFailureReported ==
    [][ (rt.stage = "called" /\ ev'.kind = "resp" /\ ev'.op = "data")
          => /\ ev'.resp.success <=> ~ev'.failed
             /\ listCatalog' = <<rt.p, rt.b>> ]_vars

\* C11 witness: replaceCatalog has reported failure after its products
\* write failed; memory holds the new catalogue, products.json does not.
C11_Witness ==
    /\ IsResponse("data") /\ ev.failed /\ ~ev.resp.success
    /\ listCatalog = << <<"p1">>, <<"b1">> >>
    /\ ~Holds(fProducts, products)
    /\ Holds(fBanners, banners)

\* C12: a createOrder whose payload lacks customer, address or items is
\* rejected and changes nothing.  Every step of the create handler either
\* goes past the validation (a "call" event, carrying the payload) or is
\* the rejection: the payloads that go past carry all three fields, and the
\* rejection answers 400 "Missing required fields" and leaves the Orders
\* collection, the counter, the catalogue, every backing file and the set
\* of writes in flight as they were.
C12_InvalidPayloadChangesNothing ==
    [][ /\ (ev'.kind = "call" /\ ev'.op = "create")
              => /\ ev'.arg.customer # Absent
                 /\ ev'.arg.address # Absent
                 /\ ev'.arg.items # Absent
        /\ (ev'.kind = "resp" /\ ev'.op = "create" /\ ev'.id = NoOrder)
              => /\ ev'.resp.code = 400 /\ ~ev'.resp.success
                 /\ ev'.resp.msg = "Missing required fields"
                 /\ UNCHANGED <<mem, disk, pending>> ]_vars

\* C12 witness: a payload without address and items has just been
\* rejected while the store holds an order and the counter has advanced.
C12_Witness ==
    /\ IsResponse("create") /\ ev.id = NoOrder /\ ev.resp.code = 400
    /\ Len(orders) = 1
    /\ orderIdCounter = DefaultCounter + 1

\* C13: updateOrder on an existing id replaces status exactly when the
\* request carries a status value and notes exactly when it carries a notes
\* value, and leaves every other field of that order, every other order
\* and the counter as they were.
C13_UpdateAppliesProvided ==
    [][ (ev'.kind = "call" /\ ev'.op = "update") =>
          LET i == FindIndex(orders, ev'.id)
              a == ev'.arg IN
             /\ i # 0
             /\ Len(orders') = Len(orders)
             /\ orders'[i].status =
                   IF a.status # Absent THEN a.status ELSE orders[i].status
             /\ orders'[i].notes =
                   IF a.notes # Absent THEN a.notes ELSE orders[i].notes
             /\ orders'[i].id = orders[i].id
             /\ orders'[i].items = orders[i].items
             /\ \A j \in 1 .. Len(orders) : j # i => orders'[j] = orders[j]
             /\ orderIdCounter' = orderIdCounter ]_vars

\* C14: deleteOrder(id) on an existing id removes exactly that order:
\* afterwards getOrder(id) yields NotFound, listOrders() is shorter by
\* exactly one, and the other orders remain, unchanged and in the same
\* relative order.
C14_DeleteRemovesTheOrder ==
    [][ \A id \in RequestIds :
          (ev'.kind = "call" /\ ev'.op = "delete" /\ ev'.id = id) =>
             LET i == FindIndex(orders, id) IN
                /\ i # 0
                /\ Len(listOrders') = Len(listOrders) - 1
                /\ \A j \in 1 .. Len(orders') :
                      orders'[j] = IF j < i THEN orders[j] ELSE orders[j + 1]
                /\ ~(getOrder(id).found)' ]_vars

\* C15: recovery barrier: every step of a request (list, get, create,
\* update, delete, replaceCatalog: the steps that take a request past its
\* checks or answer it) is taken while the server listens, which it does
\* only once initializeStorage has ended; and once the server listens,
\* initializeStorage has no write in flight.
C15_RecoveryBarrier ==
    [][ /\ ev'.kind \in {"call", "resp"} => pc = "listening"
        /\ pc' = "listening" =>
              /\ pc \in {"listening", "products", "banners", "counter",
                          "counterSave"}
              /\ OwnedBy(InitOwner, pending') = {} ]_vars

\* C15 witness: after initializeStorage has loaded the stored order,
\* GET /api/orders/1001 has been answered with it.
C15_Witness ==
    /\ IsResponse("get") /\ ev.resp.code = 200 /\ ev.id = DefaultCounter
    /\ pc = "listening"
    /\ ~bootEmpty

C17_CreateStepAtomic ==
    [][ /\ (ev'.kind = "call" /\ ev'.op = "create") =>
              /\ ev'.id = orderIdCounter
              /\ orderIdCounter' = orderIdCounter + 1
              /\ orders' = Append(orders, orders'[Len(orders')])
              /\ orders'[Len(orders')].id = ev'.id
              /\ \A h \in Handlers : hs[h].op = "create" => hs[h].id # ev'.id
        /\ (ev'.kind = "resp" /\ ev'.op = "create") =>
              /\ orders' = orders
              /\ orderIdCounter' = orderIdCounter
        /\ \A h, g \in Handlers :
              (h # g /\ hs'[h].op = "create" /\ hs'[g].op = "create")
                 => hs'[h].id # hs'[g].id ]_vars

\* C17 witness: two createOrder requests are suspended at their writes at
\* the same time, holding ids 1001 and 1002, and both orders are appended.
C17_Witness ==
    /\ hs[1].op = "create" /\ hs[2].op = "create"
    /\ {hs[1].id, hs[2].id} = {DefaultCounter, DefaultCounter + 1}
    /\ Len(orders) = 2
    /\ orders[1].id = DefaultCounter /\ orders[2].id = DefaultCounter + 1

\* C18: quiescent convergence.  In a process that found its four files
\* readable and whose writes all succeeded, whenever the server listens
\* and no write is in flight, each backing file holds its in-memory
\* collection, whatever the interleaving of the overlapping requests was.
C18_QuiescentConvergence ==
    (pc = "listening" /\ pending = {} /\ ~bootEmpty) =>
        /\ Holds(fOrders, orders)
        /\ Holds(fProducts, products)
        /\ Holds(fBanners, banners)
        /\ CounterHolds(fCounter, orderIdCounter)

\* C19: a shutdown flush does not destroy stored data.  Checked on
\* orders.json, which no request of the specification changes: a write of
\* a signal handler never replaces a readable, non-empty Orders document by
\* the empty collection the process starts with.
C19_FlushKeepsStoredOrders ==
    [][ \A w \in FlushWrites(pending) :
          ( /\ w.file = "orders"
            /\ Readable(fOrders) /\ fOrders.doc # <<>>
            /\ fOrders' # fOrders
            /\ fOrders' = Stringify(w.ords) )
              => w.ords # <<>> ]_vars

\* C20: a deletion is durable once acknowledged.  When the process died
\* right after answering DELETE /api/orders/:id with success and the next
\* process has read orders.json (no request is accepted before it listens),
\* the collection it loaded holds no order with that id.
C20_DeletionDurable ==
    (gone # NoOrder /\ pc \in {"products", "banners", "counter", "counterSave"})
        => FindIndex(listOrders, gone) = 0

====
